---- MODULE Spec2Model ----
(***************************************************************************)
(* Model of backup.py: one run of the RDS backup script.  The script is a  *)
(* straight-line program; every statement that calls the cloud service,    *)
(* the filesystem or a subprocess is one action, and an exception raised   *)
(* by a statement ends the run (there is no try/finally around the flow;   *)
(* the only handler is the EEXIST handler around os.makedirs).             *)
(*                                                                         *)
(* Python strings are modelled as sequences of one-character strings so    *)
(* that startswith, max, strftime and strptime are computed, not assumed.  *)
(***************************************************************************)
EXTENDS Integers, Sequences, FiniteSets, TLC

\* ------------------------------------------------------------------ bounds
NumRunTimes == 2
NumSnapDays == 2
MaxListed == 2

\* --------------------------------------------------------------- strings
DigitChars == <<"0", "1", "2", "3", "4", "5", "6", "7", "8", "9">>

LetterChars == <<"a", "b", "c", "d", "e", "f", "g", "h", "i", "j", "k", "l", "m", "n", "o", "p", "q", "r", "s", "t", "u", "v", "w", "x", "y", "z">>

IndexIn(seq, c) == CHOOSE i \in 1..Len(seq) : seq[i] = c

IsDigit(c) == \E i \in 1..Len(DigitChars) : DigitChars[i] = c

\* code point of a character (the order Python compares str by)
Code(c) ==
    IF c = "-" THEN 45
    ELSE IF c = "." THEN 46
    ELSE IF c = ":" THEN 58
    ELSE IF IsDigit(c) THEN 47 + IndexIn(DigitChars, c)
    ELSE 96 + IndexIn(LetterChars, c)

DigitVal(c) == Code(c) - 48

MinOf(a, b) == IF a < b THEN a ELSE b

\* a < b for Python str
LexLess(a, b) ==
    \/ Len(a) < Len(b) /\ SubSeq(b, 1, Len(a)) = a
    \/ \E i \in 1..MinOf(Len(a), Len(b)) :
          /\ SubSeq(a, 1, i - 1) = SubSeq(b, 1, i - 1)
          /\ Code(a[i]) < Code(b[i])

\* s.startswith(p)
StartsWith(s, p) == Len(p) <= Len(s) /\ SubSeq(s, 1, Len(p)) = p

\* max(list of str); the caller handles the empty list (ValueError)
MaxStr(S) == CHOOSE x \in S : \A y \in S : y = x \/ LexLess(y, x)

Pow10(k) == IF k = 0 THEN 1 ELSE IF k = 1 THEN 10 ELSE IF k = 2 THEN 100 ELSE 1000

\* zero-padded decimal of width w (w <= 4), as %Y / %m / %d / %H / %M / %S render
Pad(n, w) == [i \in 1..w |-> DigitChars[((n \div Pow10(w - i)) % 10) + 1]]

\* datetime.strftime('%Y%m%d%H%M%S')
strftime(t) ==
    Pad(t.Y, 4) \o Pad(t.m, 2) \o Pad(t.d, 2) \o Pad(t.H, 2) \o Pad(t.M, 2) \o Pad(t.S, 2)

Dash == <<"-">>

RdsPrefix == <<"r", "d", "s", ":">>

DbbPrefix == <<"d", "b", "b", "-">>

FromSnap == <<"-", "f", "r", "o", "m", "s", "n", "a", "p", "-">>

SqlXzExt == <<".", "s", "q", "l", ".", "x", "z">>

DumpExt == <<".", "d", "u", "m", "p">>

NoStr == <<>>

NoTime == [Y |-> 0, m |-> 0, d |-> 0, H |-> 0, M |-> 0, S |-> 0]

Num2(s, i) == 10 * DigitVal(s[i]) + DigitVal(s[i + 1])

Num4(s, i) == 100 * Num2(s, i) + Num2(s, i + 2)

\* the text after "rds:{instance}-" has the shape dddd-dd-dd-dd-dd
FieldShape(b) ==
    /\ Len(b) = 16
    /\ \A i \in {5, 8, 11, 14} : b[i] = "-"
    /\ \A i \in (1..16) \ {5, 8, 11, 14} : IsDigit(b[i])

\* datetime.strptime(s, "rds:{0}-%Y-%m-%d-%H-%M".format(instance)) succeeds.
\* The service names automated snapshots with zero-padded fields, for which
\* strptime's field patterns are exactly the fixed-width ones used here.
strptimeOk(s, instance) ==
    LET p == RdsPrefix \o instance \o Dash
        b == SubSeq(s, Len(p) + 1, Len(s))
    IN  /\ StartsWith(s, p)
        /\ FieldShape(b)
        /\ Num2(b, 6) \in 1..12
        /\ Num2(b, 9) \in 1..31
        /\ Num2(b, 12) \in 0..23
        /\ Num2(b, 15) \in 0..59

\* the datetime strptime returns (seconds default to 0)
strptime(s, instance) ==
    LET p == RdsPrefix \o instance \o Dash
        b == SubSeq(s, Len(p) + 1, Len(s))
    IN  [Y |-> Num4(b, 1), m |-> Num2(b, 6), d |-> Num2(b, 9),
         H |-> Num2(b, 12), M |-> Num2(b, 15), S |-> 0]

\* ------------------------------------------------------- identifiers
\* line 78: "dbb-{0}-{1}".format(args.instance, backup_timestamp)
SnapshotIdentifier(instance, t) == DbbPrefix \o instance \o Dash \o strftime(t)

\* variant: the snapshot time is dropped and the run time is used twice
DbInstanceIdRunTimeTwice(instance, bt, st) ==
    instance \o <<"-">> \o strftime(bt) \o <<"-", "f", "r", "o", "m", "s", "n", "a", "p", "-">> \o strftime(bt)

\* lines 106-109: "{0}-{1}-fromsnap-{2}".format(instance, backup_timestamp,
\* snaptime.strftime(...))
DbInstanceId(instance, bt, st) ==
    instance \o Dash \o strftime(bt) \o FromSnap \o strftime(st)

\* the name the service gives an automated snapshot of `owner` taken at t
AutomatedId(owner, t) ==
    RdsPrefix \o owner \o Dash \o Pad(t.Y, 4) \o Dash \o Pad(t.m, 2) \o Dash
        \o Pad(t.d, 2) \o Dash \o Pad(t.H, 2) \o Dash \o Pad(t.M, 2)

\* line 101: the identifiers of the listing that pass the prefix filter
Matching(listing, instance) ==
    {s.DBSnapshotIdentifier : s \in
        {e \in listing : StartsWith(e.DBSnapshotIdentifier, RdsPrefix \o instance)}}

\* lines 155-157 / 185-187: os.path.join(cwd, args.instance, db_instance + ext)
ArtifactPath(instance, dbi, ext) == [dir |-> instance, name |-> dbi \o ext]

\* ------------------------------------------------------------- inputs
OrdersDb == <<"o", "r", "d", "e", "r", "s", "-", "d", "b">>

Instances == {OrdersDb, OrdersDb \o <<"2">>}

RunTimes == {[Y |-> 2024, m |-> 11, d |-> 6, H |-> 13, M |-> 45, S |-> 9 + k] : k \in 1..NumRunTimes}

SnapTimes == {[Y |-> 2024, m |-> 1, d |-> k, H |-> 0, M |-> 0, S |-> 0] : k \in 1..NumSnapDays}

Engines == {"mysql", "postgres", "mariadb"}

ExitCodes == {0, 1}

\* an entry of response['DBSnapshots']
Entries ==
    {[DBSnapshotIdentifier |-> AutomatedId(o, t), DBInstanceIdentifier |-> o,
      Status |-> st, SnapshotType |-> "automated"] :
        o \in Instances, t \in SnapTimes, st \in {"available", "creating"}}

\* what the service may hold: at most MaxListed snapshots, identifiers unique
Listings ==
    {L \in SUBSET Entries :
        /\ Cardinality(L) <= MaxListed
        /\ \A a, b \in L : a.DBSnapshotIdentifier = b.DBSnapshotIdentifier => a = b}

\* artifacts an earlier run of the same second may have left in the directory
OldArtifacts(instance, exts) ==
    {ArtifactPath(instance, DbInstanceId(instance, r, s), e) :
        r \in RunTimes, s \in SnapTimes \cup RunTimes, e \in exts}

\* --------------------------------------------------------------- state
VARIABLES pc, args, backup_time, snapshot_identifier, latest, snaptime,
          db_instance, engine, snapshots, dbinstances, fs, dirs, procs,
          environ, calls, error, exit_status, other_pc, other_calls

progvars == <<args, backup_time, snapshot_identifier, latest, snaptime, db_instance, engine>>

cloudvars == <<snapshots, dbinstances>>

osvars == <<fs, dirs, procs, environ>>

\* a second process running the same script at the same time, if there is one
othervars == <<other_pc, other_calls>>

vars == <<pc, progvars, cloudvars, osvars, calls, error, exit_status, othervars>>

Terminal == {"done", "failed"}

\* state at line 74: arguments parsed, client created, nothing requested yet
InitRun ==
    /\ pc = "now"
    /\ args \in [instance : Instances, snapshot : BOOLEAN]
    /\ backup_time = NoTime
    /\ snapshot_identifier = NoStr
    /\ latest = NoStr
    /\ snaptime = NoTime
    /\ db_instance = NoStr
    /\ engine = "unset"
    /\ snapshots \in Listings
    /\ dbinstances = {}
    /\ \E exts \in SUBSET {SqlXzExt, DumpExt} :
          fs = [p \in OldArtifacts(args.instance, exts) |-> "old"]
    /\ dirs \in {D \in SUBSET {args.instance} : \A p \in DOMAIN fs : p.dir \in D}
    /\ procs = <<>>
    /\ environ = [PATH |-> "path"]
    /\ calls = <<>>
    /\ error = "none"
    /\ exit_status = -1

\* one run on its own
Init ==
    /\ InitRun
    /\ other_pc = "absent"
    /\ other_calls = <<>>

\* an uncaught exception: the interpreter prints the traceback and exits 1
Raise(e) ==
    /\ pc' = "failed"
    /\ error' = e
    /\ exit_status' = 1

Proceed(next) ==
    /\ pc' = next
    /\ UNCHANGED <<error, exit_status>>

\* one request to the service, as boto3 is called
Request(op, inst, snap, skip, raised) ==
    calls' = Append(calls, [op |-> op, DBInstanceIdentifier |-> inst,
                            DBSnapshotIdentifier |-> snap,
                            SkipFinalSnapshot |-> skip, raised |-> raised])

\* lines 74-77
Now ==
    /\ pc = "now"
    /\ \E t \in RunTimes : backup_time' = t
    /\ Proceed(IF args.snapshot THEN "create_db_snapshot" ELSE "describe_db_snapshots")
    /\ UNCHANGED <<args, snapshot_identifier, latest, snaptime, db_instance, engine,
                   cloudvars, osvars, calls>>
    /\ UNCHANGED othervars

\* lines 78-90
CreateSnapshot ==
    /\ pc = "create_db_snapshot"
    /\ snapshot_identifier' = SnapshotIdentifier(args.instance, backup_time)
    /\ \/ /\ \A s \in snapshots : s.DBSnapshotIdentifier # snapshot_identifier'
          /\ Request("create_db_snapshot", args.instance, snapshot_identifier', FALSE, FALSE)
          /\ snapshots' = snapshots \cup
                {[DBSnapshotIdentifier |-> snapshot_identifier',
                  DBInstanceIdentifier |-> args.instance,
                  Status |-> "creating", SnapshotType |-> "manual"]}
          /\ latest' = snapshot_identifier'
          /\ snaptime' = backup_time
          /\ Proceed("wait_snapshot")
       \/ /\ Request("create_db_snapshot", args.instance, snapshot_identifier', FALSE, TRUE)
          /\ Raise("SnapshotCreationFailed")
          /\ UNCHANGED <<snapshots, latest, snaptime>>
    /\ UNCHANGED <<args, backup_time, db_instance, engine, dbinstances, osvars>>
    /\ UNCHANGED othervars

\* some process that uses the service is still running
Active == pc \notin Terminal \/ other_pc \notin {"absent", "done", "failed"}

\* the service finishes a snapshot that was being created
SnapshotCompletes ==
    /\ Active
    /\ \E s \in snapshots :
          /\ s.Status = "creating"
          /\ snapshots' = (snapshots \ {s}) \cup {[s EXCEPT !.Status = "available"]}
    /\ UNCHANGED <<pc, progvars, dbinstances, osvars, calls, error, exit_status>>
    /\ UNCHANGED othervars

\* lines 91-93: the waiter returns once the snapshot is available, or raises
WaitSnapshot ==
    /\ pc = "wait_snapshot"
    /\ \/ /\ \E s \in snapshots : /\ s.DBSnapshotIdentifier = snapshot_identifier
                                  /\ s.Status = "available"
          /\ Request("wait_db_snapshot_completed", NoStr, snapshot_identifier, FALSE, FALSE)
          /\ Proceed("restore")
       \/ /\ Request("wait_db_snapshot_completed", NoStr, snapshot_identifier, FALSE, TRUE)
          /\ Raise("SnapshotTimeout")
    /\ UNCHANGED <<progvars, cloudvars, osvars>>
    /\ UNCHANGED othervars

\* lines 95-104: list, filter by prefix, take the maximum, parse its time
DescribeSnapshots ==
    /\ pc = "describe_db_snapshots"
    /\ \/ /\ Request("describe_db_snapshots", args.instance, NoStr, FALSE, TRUE)
          /\ Raise("DescribeSnapshotsFailed")
          /\ UNCHANGED <<latest, snaptime>>
       \/ /\ Request("describe_db_snapshots", args.instance, NoStr, FALSE, FALSE)
          /\ LET ids == Matching(snapshots, args.instance)
             IN  IF ids = {}
                 THEN /\ Raise("NoSnapshotFound")
                      /\ UNCHANGED <<latest, snaptime>>
                 ELSE /\ latest' = MaxStr(ids)
                      /\ IF strptimeOk(latest', args.instance)
                         THEN /\ snaptime' = strptime(latest', args.instance)
                              /\ Proceed("restore")
                         ELSE /\ Raise("SnapshotNameUnparsable")
                              /\ UNCHANGED snaptime
    /\ UNCHANGED <<args, backup_time, snapshot_identifier, db_instance, engine,
                   cloudvars, osvars>>
    /\ UNCHANGED othervars

\* variant: a rejected restore is caught and the flow jumps to the teardown
RestoreThenTeardown ==
    /\ pc = "restore"
    /\ db_instance' = DbInstanceId(args.instance, backup_time, snaptime)
    /\ \/ /\ \E s \in snapshots : /\ s.DBSnapshotIdentifier = latest
                                  /\ s.Status = "available"
          /\ \A i \in dbinstances : i.DBInstanceIdentifier # db_instance'
          /\ Request("restore_db_instance_from_db_snapshot", db_instance', latest, FALSE, FALSE)
          /\ dbinstances' = dbinstances \cup
                {[DBInstanceIdentifier |-> db_instance', DBInstanceStatus |-> "creating"]}
          /\ Proceed("wait_available")
       \/ /\ Request("restore_db_instance_from_db_snapshot", db_instance', latest, FALSE, TRUE)
          /\ Proceed("delete_db_instance")
          /\ UNCHANGED dbinstances
    /\ UNCHANGED <<args, backup_time, snapshot_identifier, latest, snaptime, engine,
                   snapshots, osvars>>
    /\ UNCHANGED othervars

\* lines 106-121: derive the identifier and request the restore; the service
\* accepts only an available snapshot and an unused instance identifier
Restore ==
    /\ pc = "restore"
    /\ db_instance' = DbInstanceId(args.instance, backup_time, snaptime)
    /\ \/ /\ \E s \in snapshots : /\ s.DBSnapshotIdentifier = latest
                                  /\ s.Status = "available"
          /\ \A i \in dbinstances : i.DBInstanceIdentifier # db_instance'
          /\ Request("restore_db_instance_from_db_snapshot", db_instance', latest, FALSE, FALSE)
          /\ dbinstances' = dbinstances \cup
                {[DBInstanceIdentifier |-> db_instance', DBInstanceStatus |-> "creating"]}
          /\ Proceed("wait_available")
       \/ /\ Request("restore_db_instance_from_db_snapshot", db_instance', latest, FALSE, TRUE)
          /\ Raise("RestoreFailed")
          /\ UNCHANGED dbinstances
    /\ UNCHANGED <<args, backup_time, snapshot_identifier, latest, snaptime, engine,
                   snapshots, osvars>>
    /\ UNCHANGED othervars

\* the service brings a restored instance up
InstanceBecomesAvailable ==
    /\ Active
    /\ \E i \in dbinstances :
          /\ i.DBInstanceStatus = "creating"
          /\ dbinstances' = (dbinstances \ {i}) \cup {[i EXCEPT !.DBInstanceStatus = "available"]}
    /\ UNCHANGED <<pc, progvars, snapshots, osvars, calls, error, exit_status>>
    /\ UNCHANGED othervars

\* variant: a wait without a timeout, it returns only once the instance is up
WaitAvailableForever ==
    /\ pc = "wait_available"
    /\ \E i \in dbinstances : /\ i.DBInstanceIdentifier = db_instance
                              /\ i.DBInstanceStatus = "available"
    /\ Request("wait_db_instance_available", db_instance, NoStr, FALSE, FALSE)
    /\ Proceed("describe_db_instances")
    /\ UNCHANGED <<progvars, cloudvars, osvars>>
    /\ UNCHANGED othervars

\* variant: a waiter that timed out is started again
WaitAvailableRetry ==
    /\ pc = "wait_available"
    /\ \/ /\ \E i \in dbinstances : /\ i.DBInstanceIdentifier = db_instance
                                    /\ i.DBInstanceStatus = "available"
          /\ Request("wait_db_instance_available", db_instance, NoStr, FALSE, FALSE)
          /\ Proceed("describe_db_instances")
       \/ /\ Len(calls) < 6
          /\ Request("wait_db_instance_available", db_instance, NoStr, FALSE, TRUE)
          /\ Proceed("wait_available")
    /\ UNCHANGED <<progvars, cloudvars, osvars>>
    /\ UNCHANGED othervars

\* the service completes a deletion that was requested (lines 206-210 do not
\* wait for it); the identifier is free again afterwards
InstanceDeleted ==
    /\ Active
    /\ \E i \in dbinstances :
          /\ i.DBInstanceStatus = "deleting"
          /\ dbinstances' = dbinstances \ {i}
    /\ UNCHANGED <<pc, progvars, snapshots, osvars, calls, error, exit_status, othervars>>

\* lines 123-126
WaitAvailable ==
    /\ pc = "wait_available"
    /\ \/ /\ \E i \in dbinstances : /\ i.DBInstanceIdentifier = db_instance
                                    /\ i.DBInstanceStatus = "available"
          /\ Request("wait_db_instance_available", db_instance, NoStr, FALSE, FALSE)
          /\ Proceed("describe_db_instances")
       \/ /\ Request("wait_db_instance_available", db_instance, NoStr, FALSE, TRUE)
          /\ Raise("AvailabilityTimeout")
    /\ UNCHANGED <<progvars, cloudvars, osvars>>
    /\ UNCHANGED othervars

\* lines 128-134
DescribeInstance ==
    /\ pc = "describe_db_instances"
    /\ \/ /\ Request("describe_db_instances", db_instance, NoStr, FALSE, FALSE)
          /\ \E e \in Engines : engine' = e
          /\ Proceed("modify_db_instance")
       \/ /\ Request("describe_db_instances", db_instance, NoStr, FALSE, TRUE)
          /\ Raise("DescribeInstanceFailed")
          /\ UNCHANGED engine
    /\ UNCHANGED <<args, backup_time, snapshot_identifier, latest, snaptime, db_instance,
                   cloudvars, osvars>>
    /\ UNCHANGED othervars

\* variant: the error of modify_db_instance is caught and the run goes on
ModifyInstanceSwallow ==
    /\ pc = "modify_db_instance"
    /\ \/ Request("modify_db_instance", db_instance, NoStr, FALSE, FALSE)
       \/ Request("modify_db_instance", db_instance, NoStr, FALSE, TRUE)
    /\ Proceed("makedirs")
    /\ UNCHANGED <<progvars, cloudvars, osvars>>
    /\ UNCHANGED othervars

\* lines 136-139
ModifyInstance ==
    /\ pc = "modify_db_instance"
    /\ \/ /\ Request("modify_db_instance", db_instance, NoStr, FALSE, FALSE)
          /\ Proceed("makedirs")
       \/ /\ Request("modify_db_instance", db_instance, NoStr, FALSE, TRUE)
          /\ Raise("SecurityGroupAttachFailed")
    /\ UNCHANGED <<progvars, cloudvars, osvars>>
    /\ UNCHANGED othervars

\* lines 151-152 / 179: which branch of the dump step the engine selects
DumpBranch(e) ==
    IF e = "mysql" THEN "mysql_open"
    ELSE IF e = "postgres" THEN "pg_open"
    ELSE "delete_db_instance"

\* lines 141-146: EEXIST is swallowed, any other OSError is re-raised
Makedirs ==
    /\ pc = "makedirs"
    /\ \/ /\ args.instance \notin dirs
          /\ dirs' = dirs \cup {args.instance}
          /\ Proceed(DumpBranch(engine))
       \/ /\ args.instance \in dirs
          /\ UNCHANGED dirs
          /\ Proceed(DumpBranch(engine))
       \/ /\ args.instance \notin dirs
          /\ UNCHANGED dirs
          /\ Raise("OutputDirFailed")
    /\ UNCHANGED <<progvars, cloudvars, fs, procs, environ, calls>>
    /\ UNCHANGED othervars

\* variant: the open without O_EXCL truncates a file that is already there
OpenTruncate(path, next) ==
    \/ /\ fs' = [q \in DOMAIN fs \cup {path} |-> IF q = path THEN "empty" ELSE fs[q]]
       /\ Proceed(next)
    \/ /\ path \notin DOMAIN fs
       /\ UNCHANGED fs
       /\ Raise("ArtifactCreateFailed")

\* os.open(path, O_WRONLY | O_CREAT | O_EXCL, 0600): lines 148-149, 155-160, 188
OpenExclusive(path, next) ==
    \/ /\ path \in DOMAIN fs
       /\ UNCHANGED fs
       /\ Raise("ArtifactAlreadyExists")
    \/ /\ path \notin DOMAIN fs
       /\ fs' = [q \in DOMAIN fs \cup {path} |-> IF q = path THEN "empty" ELSE fs[q]]
       /\ Proceed(next)
    \/ /\ path \notin DOMAIN fs
       /\ UNCHANGED fs
       /\ Raise("ArtifactCreateFailed")

\* the file an external tool writes to: truncated or created, then filled
WriteFile(path, content) ==
    fs' = [q \in DOMAIN fs \cup {path} |-> IF q = path THEN content ELSE fs[q]]

MysqlPath == ArtifactPath(args.instance, db_instance, SqlXzExt)

PgPath == ArtifactPath(args.instance, db_instance, DumpExt)

\* lines 153-160
MysqlOpen ==
    /\ pc = "mysql_open"
    /\ OpenExclusive(MysqlPath, "mysqldump_popen")
    /\ UNCHANGED <<progvars, cloudvars, dirs, procs, environ, calls>>
    /\ UNCHANGED othervars

\* lines 161-173: Popen returns at once; the child runs until waited for
MysqldumpPopen ==
    /\ pc = "mysqldump_popen"
    /\ \/ /\ procs' = Append(procs, [cmd |-> "mysqldump", state |-> "running",
                                     rc |-> 0, env |-> environ])
          /\ Proceed("xz_call")
       \/ /\ UNCHANGED procs
          /\ Raise("DumpToolNotStarted")
    /\ UNCHANGED <<progvars, cloudvars, fs, dirs, environ, calls>>
    /\ UNCHANGED othervars

\* lines 174-177: compress = subprocess.call(['xz', ...], stdout=f)
XzCall ==
    /\ pc = "xz_call"
    /\ \/ /\ \E rc \in ExitCodes :
                procs' = Append(procs, [cmd |-> "xz", state |-> "exited",
                                        rc |-> rc, env |-> environ])
          /\ WriteFile(MysqlPath, "xz")
          /\ Proceed("mysqldump_wait")
       \/ /\ UNCHANGED <<procs, fs>>
          /\ Raise("DumpToolNotStarted")
    /\ UNCHANGED <<progvars, cloudvars, dirs, environ, calls>>
    /\ UNCHANGED othervars

\* line 178: mysqldump.wait(); the status it returns is dropped
MysqldumpWait ==
    /\ pc = "mysqldump_wait"
    /\ \E rc \in ExitCodes, i \in 1..Len(procs) :
          /\ procs[i].cmd = "mysqldump"
          /\ procs' = [procs EXCEPT ![i] = [@ EXCEPT !.state = "exited", !.rc = rc]]
    /\ Proceed("delete_db_instance")
    /\ UNCHANGED <<progvars, cloudvars, fs, dirs, environ, calls>>
    /\ UNCHANGED othervars

\* lines 183-189
PgOpen ==
    /\ pc = "pg_open"
    /\ OpenExclusive(PgPath, "pg_dump")
    /\ UNCHANGED <<progvars, cloudvars, dirs, procs, environ, calls>>
    /\ UNCHANGED othervars

\* lines 190-191: d = dict(os.environ); d['PGPASSFILE'] = pgpass
ChildEnv(env, instance) ==
    [k \in DOMAIN env \cup {"PGPASSFILE"} |->
        IF k = "PGPASSFILE" THEN <<".", "pgpass">> \o instance ELSE env[k]]

\* variant: os.environ['PGPASSFILE'] = pgpass, the child inherits the parent's
PgDumpSetsEnviron ==
    /\ pc = "pg_dump"
    /\ environ' = ChildEnv(environ, args.instance)
    /\ \/ /\ \E rc \in ExitCodes :
                procs' = Append(procs, [cmd |-> "pg_dump", state |-> "exited",
                                        rc |-> rc, env |-> environ'])
          /\ WriteFile(PgPath, "pg_dump")
          /\ Proceed("delete_db_instance")
       \/ /\ UNCHANGED <<procs, fs>>
          /\ Raise("DumpToolNotStarted")
    /\ UNCHANGED <<progvars, cloudvars, dirs, calls>>
    /\ UNCHANGED othervars

\* variant: subprocess.check_call, a non-zero exit raises at once
PgDumpCheckCall ==
    /\ pc = "pg_dump"
    /\ \/ /\ \E rc \in ExitCodes :
                /\ procs' = Append(procs, [cmd |-> "pg_dump", state |-> "exited",
                                           rc |-> rc, env |-> ChildEnv(environ, args.instance)])
                /\ IF rc = 0 THEN Proceed("delete_db_instance") ELSE Raise("DumpFailed")
          /\ WriteFile(PgPath, "pg_dump")
       \/ /\ UNCHANGED <<procs, fs>>
          /\ Raise("DumpToolNotStarted")
    /\ UNCHANGED <<progvars, cloudvars, dirs, environ, calls>>
    /\ UNCHANGED othervars

\* lines 192-204: returncode = subprocess.call(['pg_dump', ...], env=d)
PgDump ==
    /\ pc = "pg_dump"
    /\ \/ /\ \E rc \in ExitCodes :
                procs' = Append(procs, [cmd |-> "pg_dump", state |-> "exited",
                                        rc |-> rc, env |-> ChildEnv(environ, args.instance)])
          /\ WriteFile(PgPath, "pg_dump")
          /\ Proceed("delete_db_instance")
       \/ /\ UNCHANGED <<procs, fs>>
          /\ Raise("DumpToolNotStarted")
    /\ UNCHANGED <<progvars, cloudvars, dirs, environ, calls>>
    /\ UNCHANGED othervars

\* variant: the deletion names args.instance instead of db_instance
DeleteInstanceOfSource ==
    /\ pc = "delete_db_instance"
    /\ \/ /\ Request("delete_db_instance", args.instance, NoStr, TRUE, FALSE)
          /\ Proceed(IF args.snapshot THEN "delete_db_snapshot" ELSE "log_done")
       \/ /\ Request("delete_db_instance", args.instance, NoStr, TRUE, TRUE)
          /\ Raise("TeardownFailed")
    /\ UNCHANGED <<progvars, cloudvars, osvars>>
    /\ UNCHANGED othervars

\* variant: the snapshot deletion is not conditional on --snapshot
DeleteInstanceAnyMode ==
    /\ pc = "delete_db_instance"
    /\ \/ /\ Request("delete_db_instance", db_instance, NoStr, TRUE, FALSE)
          /\ dbinstances' = {IF i.DBInstanceIdentifier = db_instance
                             THEN [i EXCEPT !.DBInstanceStatus = "deleting"]
                             ELSE i : i \in dbinstances}
          /\ Proceed("delete_db_snapshot")
       \/ /\ Request("delete_db_instance", db_instance, NoStr, TRUE, TRUE)
          /\ UNCHANGED dbinstances
          /\ Raise("TeardownFailed")
    /\ UNCHANGED <<progvars, snapshots, osvars>>
    /\ UNCHANGED othervars

\* lines 206-214
DeleteInstance ==
    /\ pc = "delete_db_instance"
    /\ \/ /\ Request("delete_db_instance", db_instance, NoStr, TRUE, FALSE)
          /\ dbinstances' = {IF i.DBInstanceIdentifier = db_instance
                             THEN [i EXCEPT !.DBInstanceStatus = "deleting"]
                             ELSE i : i \in dbinstances}
          /\ Proceed(IF args.snapshot THEN "delete_db_snapshot" ELSE "log_done")
       \/ /\ Request("delete_db_instance", db_instance, NoStr, TRUE, TRUE)
          /\ UNCHANGED dbinstances
          /\ Raise("TeardownFailed")
    /\ UNCHANGED <<progvars, snapshots, osvars>>
    /\ UNCHANGED othervars

\* lines 215-217
DeleteSnapshot ==
    /\ pc = "delete_db_snapshot"
    /\ \/ /\ Request("delete_db_snapshot", NoStr, snapshot_identifier, FALSE, FALSE)
          /\ snapshots' = {s \in snapshots : s.DBSnapshotIdentifier # snapshot_identifier}
          /\ Proceed("log_done")
       \/ /\ Request("delete_db_snapshot", NoStr, snapshot_identifier, FALSE, TRUE)
          /\ UNCHANGED snapshots
          /\ Raise("TeardownFailed")
    /\ UNCHANGED <<progvars, dbinstances, osvars>>
    /\ UNCHANGED othervars

\* line 219 and the end of the script: exit status 0
Finish ==
    /\ pc = "log_done"
    /\ pc' = "done"
    /\ exit_status' = 0
    /\ UNCHANGED <<progvars, cloudvars, osvars, calls, error>>
    /\ UNCHANGED othervars

Next ==
    \/ Now
    \/ CreateSnapshot
    \/ SnapshotCompletes
    \/ WaitSnapshot
    \/ DescribeSnapshots
    \/ Restore
    \/ InstanceBecomesAvailable
    \/ InstanceDeleted
    \/ WaitAvailable
    \/ DescribeInstance
    \/ ModifyInstance
    \/ Makedirs
    \/ MysqlOpen
    \/ MysqldumpPopen
    \/ XzCall
    \/ MysqldumpWait
    \/ PgOpen
    \/ PgDump
    \/ DeleteInstance
    \/ DeleteSnapshot
    \/ Finish

Spec == Init /\ [][Next]_vars

\* the statements of the script; each call it makes returns or raises
ProgramStep ==
    \/ Now
    \/ CreateSnapshot
    \/ WaitSnapshot
    \/ DescribeSnapshots
    \/ Restore
    \/ WaitAvailable
    \/ DescribeInstance
    \/ ModifyInstance
    \/ Makedirs
    \/ MysqlOpen
    \/ MysqldumpPopen
    \/ XzCall
    \/ MysqldumpWait
    \/ PgOpen
    \/ PgDump
    \/ DeleteInstance
    \/ DeleteSnapshot
    \/ Finish

\* the interpreter runs the script to its end: a statement that can complete
\* (return or raise) eventually does; the service's own progress is not assumed
LiveSpec == Init /\ [][Next]_vars /\ WF_vars(ProgramStep)

\* ------------------------------------------------- a second, concurrent run
\* A second process runs the same script for the same instance, started in
\* the same second and in the same mode, so that it derives the same
\* identifiers.  Only its statements that act on the service are modelled
\* (it runs in a working directory of its own); the two processes share
\* nothing but the service.
OtherSnapshotIdentifier == SnapshotIdentifier(args.instance, backup_time)

OtherLatest == IF args.snapshot THEN OtherSnapshotIdentifier ELSE latest

OtherDbInstance ==
    DbInstanceId(args.instance, backup_time, IF args.snapshot THEN backup_time ELSE snaptime)

OtherRequest(op, inst, snap, skip, raised) ==
    other_calls' = Append(other_calls, [op |-> op, DBInstanceIdentifier |-> inst,
                                        DBSnapshotIdentifier |-> snap,
                                        SkipFinalSnapshot |-> skip, raised |-> raised])

run1vars == <<pc, progvars, osvars, calls, error, exit_status>>

\* lines 74-77 and, in select-latest mode, lines 95-104 with the same listing
OtherStart ==
    /\ other_pc = "start"
    /\ backup_time # NoTime
    /\ args.snapshot \/ snaptime # NoTime
    /\ other_pc' = IF args.snapshot THEN "create_db_snapshot" ELSE "restore"
    /\ UNCHANGED <<run1vars, cloudvars, other_calls>>

\* lines 78-90
OtherCreateSnapshot ==
    /\ other_pc = "create_db_snapshot"
    /\ \/ /\ \A s \in snapshots : s.DBSnapshotIdentifier # OtherSnapshotIdentifier
          /\ OtherRequest("create_db_snapshot", args.instance, OtherSnapshotIdentifier, FALSE, FALSE)
          /\ snapshots' = snapshots \cup
                {[DBSnapshotIdentifier |-> OtherSnapshotIdentifier,
                  DBInstanceIdentifier |-> args.instance,
                  Status |-> "creating", SnapshotType |-> "manual"]}
          /\ other_pc' = "wait_snapshot"
       \/ /\ OtherRequest("create_db_snapshot", args.instance, OtherSnapshotIdentifier, FALSE, TRUE)
          /\ other_pc' = "failed"
          /\ UNCHANGED snapshots
    /\ UNCHANGED <<run1vars, dbinstances>>

\* lines 91-93
OtherWaitSnapshot ==
    /\ other_pc = "wait_snapshot"
    /\ \/ /\ \E s \in snapshots : /\ s.DBSnapshotIdentifier = OtherSnapshotIdentifier
                                  /\ s.Status = "available"
          /\ OtherRequest("wait_db_snapshot_completed", NoStr, OtherSnapshotIdentifier, FALSE, FALSE)
          /\ other_pc' = "restore"
       \/ /\ OtherRequest("wait_db_snapshot_completed", NoStr, OtherSnapshotIdentifier, FALSE, TRUE)
          /\ other_pc' = "failed"
    /\ UNCHANGED <<run1vars, cloudvars>>

\* lines 106-121
OtherRestore ==
    /\ other_pc = "restore"
    /\ \/ /\ \E s \in snapshots : /\ s.DBSnapshotIdentifier = OtherLatest
                                  /\ s.Status = "available"
          /\ \A i \in dbinstances : i.DBInstanceIdentifier # OtherDbInstance
          /\ OtherRequest("restore_db_instance_from_db_snapshot", OtherDbInstance, OtherLatest, FALSE, FALSE)
          /\ dbinstances' = dbinstances \cup
                {[DBInstanceIdentifier |-> OtherDbInstance, DBInstanceStatus |-> "creating"]}
          /\ other_pc' = "wait_available"
       \/ /\ OtherRequest("restore_db_instance_from_db_snapshot", OtherDbInstance, OtherLatest, FALSE, TRUE)
          /\ other_pc' = "failed"
          /\ UNCHANGED dbinstances
    /\ UNCHANGED <<run1vars, snapshots>>

\* lines 123-126
OtherWaitAvailable ==
    /\ other_pc = "wait_available"
    /\ \/ /\ \E i \in dbinstances : /\ i.DBInstanceIdentifier = OtherDbInstance
                                    /\ i.DBInstanceStatus = "available"
          /\ OtherRequest("wait_db_instance_available", OtherDbInstance, NoStr, FALSE, FALSE)
          /\ other_pc' = "modify_db_instance"
       \/ /\ OtherRequest("wait_db_instance_available", OtherDbInstance, NoStr, FALSE, TRUE)
          /\ other_pc' = "failed"
    /\ UNCHANGED <<run1vars, cloudvars>>

\* lines 128-139 (the describe request reads only and is not logged)
OtherModifyInstance ==
    /\ other_pc = "modify_db_instance"
    /\ \/ /\ OtherRequest("modify_db_instance", OtherDbInstance, NoStr, FALSE, FALSE)
          /\ other_pc' = "dump"
       \/ /\ OtherRequest("modify_db_instance", OtherDbInstance, NoStr, FALSE, TRUE)
          /\ other_pc' = "failed"
    /\ UNCHANGED <<run1vars, cloudvars>>

\* lines 141-204: local steps only; they end, or one of them raises
OtherDump ==
    /\ other_pc = "dump"
    /\ \E next \in {"delete_db_instance", "failed"} : other_pc' = next
    /\ UNCHANGED <<run1vars, cloudvars, other_calls>>

\* lines 206-214
OtherDeleteInstance ==
    /\ other_pc = "delete_db_instance"
    /\ \/ /\ OtherRequest("delete_db_instance", OtherDbInstance, NoStr, TRUE, FALSE)
          /\ dbinstances' = {IF i.DBInstanceIdentifier = OtherDbInstance
                             THEN [i EXCEPT !.DBInstanceStatus = "deleting"]
                             ELSE i : i \in dbinstances}
          /\ other_pc' = IF args.snapshot THEN "delete_db_snapshot" ELSE "done"
       \/ /\ OtherRequest("delete_db_instance", OtherDbInstance, NoStr, TRUE, TRUE)
          /\ UNCHANGED dbinstances
          /\ other_pc' = "failed"
    /\ UNCHANGED <<run1vars, snapshots>>

\* lines 215-219
OtherDeleteSnapshot ==
    /\ other_pc = "delete_db_snapshot"
    /\ \/ /\ OtherRequest("delete_db_snapshot", NoStr, OtherSnapshotIdentifier, FALSE, FALSE)
          /\ snapshots' = {s \in snapshots : s.DBSnapshotIdentifier # OtherSnapshotIdentifier}
          /\ other_pc' = "done"
       \/ /\ OtherRequest("delete_db_snapshot", NoStr, OtherSnapshotIdentifier, FALSE, TRUE)
          /\ UNCHANGED snapshots
          /\ other_pc' = "failed"
    /\ UNCHANGED <<run1vars, dbinstances>>

\* two runs for the same instance; the local directory starts empty
InitTwoRuns ==
    /\ InitRun
    /\ args.instance = OrdersDb
    /\ fs = <<>>
    /\ dirs = {}
    /\ other_pc = "start"
    /\ other_calls = <<>>

NextTwoRuns ==
    \/ Now
    \/ CreateSnapshot
    \/ SnapshotCompletes
    \/ WaitSnapshot
    \/ DescribeSnapshots
    \/ Restore
    \/ InstanceBecomesAvailable
    \/ InstanceDeleted
    \/ WaitAvailable
    \/ DescribeInstance
    \/ ModifyInstance
    \/ Makedirs
    \/ MysqlOpen
    \/ MysqldumpPopen
    \/ XzCall
    \/ MysqldumpWait
    \/ PgOpen
    \/ PgDump
    \/ DeleteInstance
    \/ DeleteSnapshot
    \/ Finish
    \/ OtherStart
    \/ OtherCreateSnapshot
    \/ OtherWaitSnapshot
    \/ OtherRestore
    \/ OtherWaitAvailable
    \/ OtherModifyInstance
    \/ OtherDump
    \/ OtherDeleteInstance
    \/ OtherDeleteSnapshot

TwoRunSpec == InitTwoRuns /\ [][NextTwoRuns]_vars

\* ------------------------------------------------------------ properties
RestoreOp == "restore_db_instance_from_db_snapshot"

Issued(op) == {i \in 1..Len(calls) : calls[i].op = op}

RestoreSucceeded == \E i \in Issued(RestoreOp) : ~calls[i].raised

RestoreRejected == \E i \in Issued(RestoreOp) : calls[i].raised

DeleteInstanceRequests ==
    {i \in Issued("delete_db_instance") : calls[i].DBInstanceIdentifier = db_instance}

Exited(cmds) ==
    {i \in 1..Len(procs) : procs[i].cmd \in cmds /\ procs[i].state = "exited"}

DumpToolFailed == \E i \in Exited({"mysqldump", "pg_dump"}) : procs[i].rc # 0

\* C1: every run whose restore succeeded has requested delete_db_instance for
\* the restored identifier exactly once by the time it ends, whichever later
\* step failed.
C1_TeardownExactlyOnce ==
    (pc \in Terminal /\ RestoreSucceeded) => Cardinality(DeleteInstanceRequests) = 1

\* C2: once mysqldump or pg_dump has exited non-zero, the run's next request
\* is, or its requests already include, delete_db_instance for the restored
\* instance with SkipFinalSnapshot=True; a run never ends without it.
C2_FailedDumpStillTearsDown ==
    DumpToolFailed =>
        /\ pc # "failed" \/ error = "TeardownFailed"
        /\ \/ pc = "delete_db_instance"
           \/ \E i \in DeleteInstanceRequests : calls[i].SkipFinalSnapshot

C2_Witness ==
    /\ pc = "done"
    /\ DumpToolFailed
    /\ \E i \in DeleteInstanceRequests : calls[i].SkipFinalSnapshot /\ ~calls[i].raised

\* C3: a run in which the dump tool exited non-zero ends failed, reporting
\* DumpFailed with a non-zero process status, and never ends "Done" (runs
\* whose teardown request itself raised are left aside).
C3_DumpFailureReported ==
    (pc \in Terminal /\ DumpToolFailed /\ error # "TeardownFailed") =>
        /\ pc = "failed"
        /\ error = "DumpFailed"
        /\ exit_status # 0

\* C4: a rejected restore ends the run as RestoreFailed with a non-zero
\* status; the restore is the last request, no instance, wait, describe,
\* modify, dump process or deletion follows it; and a run that failed before
\* a successful restore has issued no deletion request at all.
C4_RejectedRestoreStops ==
    /\ RestoreRejected =>
          /\ pc = "failed"
          /\ error = "RestoreFailed"
          /\ exit_status = 1
          /\ calls[Len(calls)].op = RestoreOp
          /\ procs = <<>>
          /\ dbinstances = {}
    /\ (pc = "failed" /\ ~RestoreSucceeded) =>
          Issued("delete_db_instance") \cup Issued("delete_db_snapshot") = {}

C4_Witness ==
    /\ RestoreRejected
    /\ pc = "failed"
    /\ Len(calls) >= 2

SnapshotCompleted(id) ==
    \E s \in snapshots : s.DBSnapshotIdentifier = id /\ s.Status = "available"

RestoreIssuedNow ==
    /\ Len(calls') = Len(calls) + 1
    /\ calls'[Len(calls')].op = RestoreOp

\* C5: at the step that issues the restore request, the snapshot passed to it
\* exists and is completed (available), in both modes.
C5_SnapshotCompletedBeforeRestore ==
    [][RestoreIssuedNow => SnapshotCompleted(latest)]_vars

\* identifiers of the listed snapshots that belong to the source instance
Owned(listing, instance) ==
    {s.DBSnapshotIdentifier : s \in {e \in listing : e.DBInstanceIdentifier = instance}}

ListingReturned == \E i \in Issued("describe_db_snapshots") : ~calls[i].raised

\* C6: in select-latest mode, once the listing has been returned, the selected
\* identifier is the lexicographic maximum of the source instance's own
\* snapshots; with none, the run fails with NoSnapshotFound and no restore.
C6_SelectsMaxOfOwnSnapshots ==
    (~args.snapshot /\ ListingReturned) =>
        IF Owned(snapshots, args.instance) = {}
        THEN /\ pc = "failed"
             /\ error = "NoSnapshotFound"
             /\ Issued(RestoreOp) = {}
        ELSE latest = MaxStr(Owned(snapshots, args.instance))

StripDashes(s) == SelectSeq(s, LAMBDA c : c # "-")

Decode14(s) ==
    [Y |-> Num4(s, 1), m |-> Num2(s, 5), d |-> Num2(s, 7),
     H |-> Num2(s, 9), M |-> Num2(s, 11), S |-> Num2(s, 13)]

ScenarioASnapshot ==
    RdsPrefix \o OrdersDb \o <<"-", "2", "0", "2", "4", "-", "0", "1", "-", "0", "2", "-", "0", "0", "-", "0", "0">>

ScenarioASuffix ==
    FromSnap \o <<"2", "0", "2", "4", "0", "1", "0", "2", "0", "0", "0", "0", "0", "0">>

\* C7: the restored-instance identifier is {source}-{run}-fromsnap-{snap}:
\* the source name, a dash, 14 digits that read back as the run time to the
\* second, "-fromsnap-", and 14 digits that are, in select-latest mode, the
\* digits of the time in the selected snapshot's name followed by 00 seconds
\* (rds:orders-db-2024-01-02-00-00 gives fromsnap-20240102000000) and, in
\* create-fresh mode, the run's own 14 digits.
C7_RestoredIdentifierForm ==
    db_instance # NoStr =>
        LET n == Len(args.instance)
            run == SubSeq(db_instance, n + 2, n + 15)
            snap == SubSeq(db_instance, n + 26, n + 39)
        IN  /\ Len(db_instance) = n + 39
            /\ SubSeq(db_instance, 1, n) = args.instance
            /\ db_instance[n + 1] = "-"
            /\ SubSeq(db_instance, n + 16, n + 25) = FromSnap
            /\ \A i \in 1..14 : IsDigit(run[i]) /\ IsDigit(snap[i])
            /\ Decode14(run) = backup_time
            /\ args.snapshot => snap = run
            /\ ~args.snapshot =>
                  snap = StripDashes(SubSeq(latest, Len(RdsPrefix) + n + 2, Len(latest)))
                            \o <<"0", "0">>
            /\ (~args.snapshot /\ latest = ScenarioASnapshot) =>
                  SubSeq(db_instance, n + 16, n + 39) = ScenarioASuffix

C7_Witness ==
    /\ RestoreSucceeded
    /\ ~args.snapshot
    /\ args.instance = OrdersDb
    /\ latest = ScenarioASnapshot
    /\ Cardinality(snapshots) = 2

OpenStep == pc \in {"mysql_open", "pg_open"} /\ pc' # pc

OpenedPath == IF pc = "mysql_open" THEN MysqlPath ELSE PgPath

\* C8: when the open of the artifact finds a file at the derived path, the
\* step raises ArtifactAlreadyExists and leaves the filesystem as it was; no
\* file that existed before the run ever changes; and a run that ended that
\* way has started no process.
C8_ExclusiveArtifactCreation ==
    [][/\ (OpenStep /\ OpenedPath \in DOMAIN fs) =>
              /\ pc' = "failed"
              /\ error' = "ArtifactAlreadyExists"
              /\ fs' = fs
              /\ procs' = procs
       /\ \A p \in DOMAIN fs : fs[p] = "old" => (p \in DOMAIN fs' /\ fs'[p] = "old")
       /\ error' = "ArtifactAlreadyExists" => procs' = <<>>]_vars

C8_Witness ==
    /\ error = "ArtifactAlreadyExists"
    /\ engine = "postgres"
    /\ PgPath \in DOMAIN fs
    /\ fs[PgPath] = "old"
    /\ procs = <<>>

\* C9: a delete_db_snapshot request is only ever issued in create-fresh mode,
\* names the snapshot this run created, and comes after a delete_db_instance
\* request; a create-fresh run that ends "Done" has issued it; in
\* select-latest mode none is issued and the selected snapshot stays.
C9_SnapshotDeletion ==
    /\ \A i \in Issued("delete_db_snapshot") :
          /\ args.snapshot
          /\ calls[i].DBSnapshotIdentifier = SnapshotIdentifier(args.instance, backup_time)
          /\ \E j \in Issued("create_db_snapshot") :
                /\ ~calls[j].raised
                /\ calls[j].DBSnapshotIdentifier = calls[i].DBSnapshotIdentifier
          /\ \E j \in Issued("delete_db_instance") : j < i
    /\ (pc = "done" /\ args.snapshot) => Issued("delete_db_snapshot") # {}
    /\ ~args.snapshot =>
          /\ Issued("delete_db_snapshot") = {}
          /\ latest # NoStr => \E s \in snapshots : s.DBSnapshotIdentifier = latest

C9_Witness ==
    /\ pc = "done"
    /\ args.snapshot
    /\ \E i \in Issued("delete_db_snapshot") : ~calls[i].raised
    /\ \A s \in snapshots : s.DBSnapshotIdentifier # snapshot_identifier

\* C10: on the MySQL path a non-zero exit of mysqldump or of xz makes the run
\* end failed with DumpFailed (runs whose teardown request itself raised are
\* left aside).
C10_MysqlPipelineStatusChecked ==
    (/\ pc \in Terminal
     /\ \E i \in Exited({"mysqldump", "xz"}) : procs[i].rc # 0
     /\ error # "TeardownFailed") =>
        /\ pc = "failed"
        /\ error = "DumpFailed"

\* files this run created (everything that is not an earlier run's artifact)
ArtifactsCreated == {p \in DOMAIN fs : fs[p] # "old"}

PastDumpStep == pc \in {"delete_db_instance", "delete_db_snapshot", "log_done", "done"}

\* C11: a run that got past the dump step has created exactly one artifact
\* file, whatever engine describe_db_instances reported; none reaches the
\* teardown or the successful end with zero artifacts.
C11_ExactlyOneArtifact ==
    PastDumpStep => Cardinality(ArtifactsCreated) = 1

\* what the process surfaces: the one uncaught exception, if any (the script
\* logs at info level only and has no handler that reports anything else)
Surfaced == IF error = "none" THEN {} ELSE {error}

TeardownRaised ==
    \E i \in Issued("delete_db_instance") \cup Issued("delete_db_snapshot") : calls[i].raised

\* C12: when a dump stage failed on the restored instance and the teardown
\* request then failed too, the run surfaces both the dump failure and the
\* teardown failure.
C12_BothErrorsSurfaced ==
    (/\ pc \in Terminal
     /\ RestoreSucceeded
     /\ \E i \in Exited({"mysqldump", "xz", "pg_dump"}) : procs[i].rc # 0
     /\ TeardownRaised) =>
        {"DumpFailed", "TeardownFailed"} \subseteq Surfaced

\* C13: no step changes the parent's environment; PGPASSFILE is present in
\* the environment handed to pg_dump and in that of no other process, and
\* that environment is otherwise the parent's.
C13_PgpassScopedToSubprocess ==
    [][/\ environ' = environ
       /\ "PGPASSFILE" \notin DOMAIN environ'
       /\ \A i \in 1..Len(procs') :
             IF procs'[i].cmd = "pg_dump"
             THEN /\ "PGPASSFILE" \in DOMAIN procs'[i].env
                  /\ \A k \in DOMAIN environ : procs'[i].env[k] = environ[k]
             ELSE procs'[i].env = environ]_vars

C13_Witness ==
    /\ pc \in {"delete_db_instance", "failed"}
    /\ \E i \in Exited({"pg_dump"}) :
          /\ procs[i].rc # 0
          /\ procs[i].env["PGPASSFILE"] = <<".", "pgpass">> \o args.instance
    /\ "PGPASSFILE" \notin DOMAIN environ

\* position of a service operation in the script
Rank(op) ==
    IF op \in {"create_db_snapshot", "describe_db_snapshots"} THEN 1
    ELSE IF op = "wait_db_snapshot_completed" THEN 2
    ELSE IF op = RestoreOp THEN 3
    ELSE IF op = "wait_db_instance_available" THEN 4
    ELSE IF op = "describe_db_instances" THEN 5
    ELSE IF op = "modify_db_instance" THEN 6
    ELSE IF op = "delete_db_instance" THEN 7
    ELSE 8

Returned(op) == \E i \in Issued(op) : ~calls[i].raised

DumpStepRan ==
    /\ \A i \in 1..Len(procs) : procs[i].state = "exited"
    /\ engine = "mysql" => Exited({"mysqldump"}) # {} /\ Exited({"xz"}) # {}
    /\ engine = "postgres" => Exited({"pg_dump"}) # {}

InOrder ==
    /\ \A i, j \in 1..Len(calls) : i < j => Rank(calls[i].op) < Rank(calls[j].op)
    /\ \A i \in 1..Len(calls) : calls[i].raised => (i = Len(calls) /\ pc = "failed")
    /\ Issued(RestoreOp) # {} =>
          Returned("describe_db_snapshots") \/ Returned("wait_db_snapshot_completed")
    /\ Issued("wait_db_instance_available") # {} => Returned(RestoreOp)
    /\ Issued("describe_db_instances") # {} => Returned("wait_db_instance_available")
    /\ Issued("modify_db_instance") # {} =>
          Returned("wait_db_instance_available") /\ Returned("describe_db_instances")
    /\ (procs # <<>> \/ ArtifactsCreated # {}) => Returned("modify_db_instance")
    /\ Issued("delete_db_instance") # {} => Returned("modify_db_instance") /\ DumpStepRan

\* C14: requests are issued in script order, each only after the one before
\* it returned: the restore after the snapshot was resolved, modify after the
\* availability wait and describe, artifact and dump tool after modify, the
\* instance deletion after the dump branch the engine selects has run to its
\* end; a request that raised is the last one, and a failed run takes no
\* further step; nothing is dumped once the deletion has been requested.
C14_OperationsInOrder ==
    [][/\ pc # "failed"
       /\ InOrder'
       /\ Issued("delete_db_instance") # {} => (procs' = procs /\ fs' = fs)]_vars

C14_Witness ==
    /\ pc = "done"
    /\ args.snapshot
    /\ engine = "mysql"
    /\ Len(calls) = 8
    /\ Len(procs) = 2

ServiceOps ==
    {"create_db_snapshot", "wait_db_snapshot_completed", "describe_db_snapshots",
     RestoreOp, "wait_db_instance_available", "describe_db_instances",
     "modify_db_instance", "delete_db_instance", "delete_db_snapshot"}

\* C15: in one run every service operation and every wait is issued at most
\* once and every tool is started at most once, also in runs that failed.
C15_NoRetry ==
    /\ \A op \in ServiceOps : Cardinality(Issued(op)) <= 1
    /\ \A i \in 1..Len(calls) : calls[i].op \in ServiceOps
    /\ \A cmd \in {"mysqldump", "xz", "pg_dump"} :
          Cardinality({i \in 1..Len(procs) : procs[i].cmd = cmd}) <= 1

C15_Witness ==
    /\ pc = "failed"
    /\ error = "AvailabilityTimeout"
    /\ Cardinality(Issued("wait_db_instance_available")) = 1
    /\ calls[Len(calls)].raised

\* C18: restore, the availability wait, describe, modify and delete name the
\* derived identifier, which is not the source instance's name; a request
\* that names the source instance is the snapshot listing or, in create-fresh
\* mode, the snapshot creation.
C18_SourceInstanceUntouched ==
    \A i \in 1..Len(calls) :
        LET c == calls[i]
        IN  /\ c.op \in {RestoreOp, "wait_db_instance_available", "describe_db_instances",
                         "modify_db_instance", "delete_db_instance"} =>
                  /\ c.DBInstanceIdentifier = db_instance
                  /\ c.DBInstanceIdentifier \notin Instances
                  /\ Len(c.DBInstanceIdentifier) > Len(args.instance)
            /\ c.DBInstanceIdentifier = args.instance =>
                  \/ c.op = "describe_db_snapshots" /\ ~args.snapshot
                  \/ c.op = "create_db_snapshot" /\ args.snapshot

C18_Witness ==
    /\ pc = "done"
    /\ args.snapshot
    /\ Returned("create_db_snapshot")
    /\ Returned("modify_db_instance")
    /\ Returned("delete_db_instance")

\* C16: with every call and process eventually returning or raising, every
\* run eventually ends, torn down ("done") or failed.
C16_RunTerminates == <>(pc \in Terminal)

C16_Witness ==
    /\ pc = "done"
    /\ args.snapshot
    /\ Returned("wait_db_snapshot_completed")
    /\ Returned("wait_db_instance_available")
    /\ Exited({"mysqldump"}) # {}

OtherIssued(op) == {i \in 1..Len(other_calls) : other_calls[i].op = op}

OtherReturned(op) == \E i \in OtherIssued(op) : ~other_calls[i].raised

OtherRestoreSucceeded == OtherReturned(RestoreOp)

OtherRestoreRejected == \E i \in OtherIssued(RestoreOp) : other_calls[i].raised

TouchOps == {"modify_db_instance", "delete_db_instance"}

\* a run's restore was rejected and yet it asked to modify or delete
RejectedRunTouches ==
    \/ RestoreRejected /\ \E op \in TouchOps : Issued(op) # {}
    \/ OtherRestoreRejected /\ \E op \in TouchOps : OtherIssued(op) # {}

\* C17 as stated: of two concurrent runs that derive the same identifier at
\* most one restore succeeds, and the run whose restore was rejected never
\* asks to modify or delete under that identifier.
C17_AtMostOneRestoreSucceeds ==
    /\ ~(RestoreSucceeded /\ OtherRestoreSucceeded)
    /\ ~RejectedRunTouches

\* a run has a restored instance it has not yet asked to delete
Holding == RestoreSucceeded /\ ~Returned("delete_db_instance")

OtherHolding == OtherRestoreSucceeded /\ ~OtherReturned("delete_db_instance")

TouchedNow(log) ==
    /\ Len(log') = Len(log) + 1
    /\ log'[Len(log')].op \in TouchOps

\* C17 amended: the two runs never hold a restored instance under the shared
\* identifier at the same time, the service keeps at most one instance under
\* it, and both restores succeed only one after the other's deletion; a run
\* asks to modify or delete only after its own restore succeeded and while
\* the other run holds no instance, so a rejected run never does.
C17_NoSharedInstance ==
    [][/\ ~(Holding' /\ OtherHolding')
       /\ Cardinality({i \in dbinstances' : i.DBInstanceIdentifier = OtherDbInstance'}) <= 1
       /\ (RestoreSucceeded' /\ OtherRestoreSucceeded') =>
              (Returned("delete_db_instance")' \/ OtherReturned("delete_db_instance")')
       /\ ~RejectedRunTouches'
       /\ TouchedNow(calls) => (RestoreSucceeded /\ ~OtherHolding)
       /\ TouchedNow(other_calls) => (OtherRestoreSucceeded /\ ~Holding)]_vars

C17_Witness ==
    /\ pc = "failed"
    /\ RestoreRejected
    /\ db_instance = OtherDbInstance
    /\ OtherRestoreSucceeded
    /\ OtherReturned("modify_db_instance")
    /\ \E i \in dbinstances : i.DBInstanceIdentifier = db_instance

====
